---- MODULE Spec2Model ----
(***************************************************************************)
(* Model of RowFlow's local inference runtime and retrieval subsystem:     *)
(* the Ollama process supervisor (apps/desktop/src-tauri/src/ai/           *)
(* supervisor.rs) and the embedding store (.../ai/vector_store.rs).        *)
(*                                                                         *)
(* One OllamaSupervisor is shared (Arc) by two threads.  Every region of   *)
(* the code that runs between self.state.lock() and the release of the     *)
(* guard is one action; the spawn, the HTTP probe and the sleeps happen    *)
(* outside the lock and are actions of their own.  The two parts share no  *)
(* state: Spec runs the supervisor, StoreSpec and SearchSpec run the store.*)
(***************************************************************************)
EXTENDS Integers, FiniteSets, Sequences, TLC

\* ------------------------------------------------------------------ bounds
MaxAttempts == 2     \* max_restart_attempts is drawn from 1..MaxAttempts
MaxSpawns == 2       \* children the OS lets the model spawn

\* The two holders of the Arc<OllamaSupervisor>: the background task that runs
\* supervise(), and a caller of start(), stop(), health_check() and restart().
Procs == {"task", "caller"}
NoProc == "nobody"
Pids == 1..MaxSpawns
None == 0            \* Option::None for process_handle / last_health_check

\* ------------------------------------------------------------ program state
VARIABLES
    max_restart_attempts,  \* SupervisorConfig.max_restart_attempts
    status,                \* SupervisorState.status
    process_handle,        \* SupervisorState.process_handle (None or a pid)
    restart_count,         \* SupervisorState.restart_count
    last_health_check,     \* SupervisorState.last_health_check (None or a stamp)
    error_message,         \* SupervisorState.error_message
    spawned,               \* OS: number of children spawned so far (pids 1..spawned)
    running,               \* OS: spawned children that were never signalled
    pc,                    \* per caller: position in the code
    op,                    \* per caller: the function it called
    probe_res,             \* per caller: outcome of send().await in health_check
    spawn_res,             \* per caller: outcome of cmd.spawn() in start
    kill_res,              \* per caller: outcome of kill() in its last stop
    ret,                   \* per caller: last function return [fn, val]
    stale,                 \* history: a stop() completed while the caller's
                           \*   start()/health_check() held a decided value
    rounds,                \* history: consecutive (failed health_check; restart) rounds
    phase,                 \* history: position inside the current round
    owner,                 \* history: caller running the current round
    failed_cause           \* history: why status was last set to Failed

supState == <<status, process_handle, restart_count, last_health_check, error_message>>
osState == <<spawned, running>>
callState == <<pc, op, probe_res, spawn_res, kill_res, ret>>
histState == <<stale, rounds, phase, owner, failed_cause>>
vars == <<max_restart_attempts, supState, osState, callState, histState>>

OllamaProcessStatus == {"Stopped", "Starting", "Running", "Unhealthy", "Failed"}
Functions == {"start", "stop", "health_check", "restart", "supervise"}
NoRet == [fn |-> "none", val |-> "none"]

\* OllamaSupervisor::new
Init ==
    /\ max_restart_attempts \in 1..MaxAttempts
    /\ status = "Stopped"
    /\ process_handle = None
    /\ restart_count = 0
    /\ last_health_check = None
    /\ error_message = "None"
    /\ spawned = 0
    /\ running = {}
    /\ pc = [p \in Procs |-> "idle"]
    /\ op = [p \in Procs |-> "none"]
    /\ probe_res = [p \in Procs |-> "none"]
    /\ spawn_res = [p \in Procs |-> 0]
    /\ kill_res = [p \in Procs |-> "none"]
    /\ ret = [p \in Procs |-> NoRet]
    /\ stale = [p \in Procs |-> FALSE]
    /\ rounds = 0
    /\ phase = "idle"
    /\ owner = NoProc
    /\ failed_cause = "none"

\* ------------------------------------------------------- history bookkeeping
\* A round is one failed health_check() followed by one restart() of the same
\* caller, with no state-changing step of any other call in between.
HistKeep == UNCHANGED <<rounds, phase, owner>>

HistReset == rounds' = 0 /\ phase' = "idle" /\ owner' = NoProc

HistRoundDone ==
    /\ rounds' = IF rounds < MaxAttempts THEN rounds + 1 ELSE rounds
    /\ phase' = "idle"
    /\ owner' = NoProc

HistFailedProbe(p) ==
    /\ rounds' = IF phase = "idle" THEN rounds ELSE 0
    /\ phase' = "failed_hc"
    /\ owner' = p

\* the first critical section of restart(); done = it returned there
HistRestartBegin(p, done) ==
    IF phase = "failed_hc" /\ owner = p
    THEN IF done THEN HistRoundDone
         ELSE rounds' = rounds /\ phase' = "restarting" /\ owner' = p
    ELSE HistReset

\* a step of stop() or start(); done = restart() returned with it
HistInner(p, done) ==
    IF phase = "restarting" /\ owner = p
    THEN IF done THEN HistRoundDone ELSE HistKeep
    ELSE HistReset

\* pcs at which a call holds a value it decided outside the lock and has not
\* written yet
InFlight == {"start_spawn", "start_record", "health_check_record"}

\* -------------------------------------------------- pieces of the operations
\* restart(): `state.restart_count >= self.config.max_restart_attempts`
exhausted_off_by_one(count) == count > max_restart_attempts

exhausted(count) == count >= max_restart_attempts

\* restart(): the status written when the budget is exhausted
exhausted_status_unhealthy == "Unhealthy"

exhausted_status == "Failed"

\* stop(): the three fields written at the end of a stop that did not return early
stopped_state_keeps_handle ==
    [status |-> "Stopped", process_handle |-> process_handle, restart_count |-> 0]

stopped_state_keeps_count ==
    [status |-> "Stopped", process_handle |-> None, restart_count |-> restart_count]

stopped_state == [status |-> "Stopped", process_handle |-> None, restart_count |-> 0]

\* start(): the two fields written in the Err(err) arm of cmd.spawn()
spawn_failed_state_keeps_message == [status |-> "Failed", error_message |-> error_message]

spawn_failed_state == [status |-> "Failed", error_message |-> "spawn_err"]

\* stop(): `state.status == OllamaProcessStatus::Stopped`, the early return
stop_never_returns_early(s) == FALSE

stop_returns_early(s) == s = "Stopped"

\* ------------------------------------------------------------------- calls
Entry(f) ==
    CASE f = "start" -> "start_begin"
      [] f = "stop" -> "stop"
      [] f = "health_check" -> "health_check_probe"
      [] f = "restart" -> "restart_begin"
      [] f = "supervise" -> "supervise_sleep"
      [] f = "status" -> "status"

\* a caller invokes one of the public async functions
Call(p, f) ==
    /\ pc[p] = "idle"
    /\ (p = "task") <=> (f = "supervise")
    /\ pc' = [pc EXCEPT ![p] = Entry(f)]
    /\ op' = [op EXCEPT ![p] = f]
    /\ probe_res' = [probe_res EXCEPT ![p] = "none"]
    /\ spawn_res' = [spawn_res EXCEPT ![p] = 0]
    /\ kill_res' = [kill_res EXCEPT ![p] = "none"]
    /\ ret' = [ret EXCEPT ![p] = NoRet]
    /\ HistKeep
    /\ UNCHANGED <<max_restart_attempts, supState, osState, stale, failed_cause>>

\* start() returns v: to its caller, to restart()'s caller, or into the
\* supervise loop, which logs a restart error and continues
StartReturns(p, v) ==
    /\ pc' = [pc EXCEPT ![p] = IF op[p] = "supervise" THEN "supervise_sleep" ELSE "idle"]
    /\ op' = [op EXCEPT ![p] = IF op[p] = "supervise" THEN "supervise" ELSE "none"]
    /\ ret' = [ret EXCEPT ![p] = [fn |-> IF op[p] = "start" THEN "start" ELSE "restart",
                                  val |-> v]]

\* start(), first critical section
start_begin(p) ==
    /\ pc[p] = "start_begin"
    /\ IF status = "Running"
       THEN /\ StartReturns(p, "ok")
            /\ UNCHANGED <<status, failed_cause>>
       ELSE /\ status' = "Starting"
            /\ failed_cause' = "none"
            /\ pc' = [pc EXCEPT ![p] = "start_spawn"]
            /\ ret' = [ret EXCEPT ![p] = NoRet]
            /\ UNCHANGED op
    /\ HistInner(p, status = "Running")
    /\ UNCHANGED <<max_restart_attempts, process_handle, restart_count, last_health_check,
                   error_message, osState, probe_res, spawn_res, kill_res, stale>>

\* start(), cmd.spawn() outside the lock
start_spawn(p) ==
    /\ pc[p] = "start_spawn"
    /\ \/ /\ spawned < MaxSpawns
          /\ spawned' = spawned + 1
          /\ running' = running \cup {spawned + 1}
          /\ spawn_res' = [spawn_res EXCEPT ![p] = spawned + 1]
       \/ /\ spawn_res' = [spawn_res EXCEPT ![p] = -1]
          /\ UNCHANGED osState
    /\ pc' = [pc EXCEPT ![p] = "start_record"]
    /\ HistInner(p, FALSE)
    /\ UNCHANGED <<max_restart_attempts, supState, op, probe_res, kill_res, ret,
                   stale, failed_cause>>

\* start(), second critical section: the Ok(child) and Err(err) arms
start_record(p) ==
    /\ pc[p] = "start_record"
    /\ IF spawn_res[p] > 0
       THEN /\ process_handle' = spawn_res[p]
            /\ status' = "Running"
            /\ error_message' = "None"
            /\ failed_cause' = "none"
            /\ StartReturns(p, "ok")
       ELSE /\ status' = spawn_failed_state.status
            /\ error_message' = spawn_failed_state.error_message
            /\ failed_cause' = "spawn"
            /\ StartReturns(p, "spawn_err")
            /\ UNCHANGED process_handle
    /\ spawn_res' = [spawn_res EXCEPT ![p] = 0]
    /\ stale' = [stale EXCEPT ![p] = FALSE]
    /\ HistInner(p, TRUE)
    /\ UNCHANGED <<max_restart_attempts, restart_count, last_health_check, osState,
                   probe_res, kill_res>>

\* stop(): one critical section.  kill() is sent to the recorded pid only; its
\* failure is logged and ignored (a failed delivery means the child is gone).
stop(p) ==
    /\ pc[p] = "stop"
    /\ IF stop_returns_early(status)
       THEN UNCHANGED <<supState, osState, kill_res, stale, failed_cause>>
       ELSE /\ IF process_handle # None
               THEN \E k \in {"ok", "err"} :
                       /\ kill_res' = [kill_res EXCEPT ![p] = k]
                       /\ running' = running \ {process_handle}
               ELSE UNCHANGED <<running, kill_res>>
            /\ status' = stopped_state.status
            /\ process_handle' = stopped_state.process_handle
            /\ restart_count' = stopped_state.restart_count
            /\ failed_cause' = "none"
            /\ stale' = [q \in Procs |-> IF q # p /\ pc[q] \in InFlight THEN TRUE ELSE stale[q]]
            /\ UNCHANGED <<last_health_check, error_message, spawned>>
    /\ pc' = [pc EXCEPT ![p] = IF op[p] = "stop" THEN "idle" ELSE "restart_sleep"]
    /\ op' = [op EXCEPT ![p] = IF op[p] = "stop" THEN "none" ELSE op[p]]
    /\ ret' = [ret EXCEPT ![p] = [fn |-> "stop", val |-> "ok"]]
    /\ HistInner(p, FALSE)
    /\ UNCHANGED <<max_restart_attempts, probe_res, spawn_res>>

\* health_check(): build the client and await the GET, outside the lock
health_check_probe(p) ==
    /\ pc[p] = "health_check_probe"
    /\ \E r \in {"success", "nonsuccess", "err", "client_err"} :
          IF r = "client_err"
          THEN /\ pc' = [pc EXCEPT ![p] = "idle"]
               /\ op' = [op EXCEPT ![p] = "none"]
               /\ ret' = [ret EXCEPT ![p] = [fn |-> op[p], val |-> "client_err"]]
               /\ UNCHANGED probe_res
          ELSE /\ pc' = [pc EXCEPT ![p] = "health_check_record"]
               /\ probe_res' = [probe_res EXCEPT ![p] = r]
               /\ ret' = [ret EXCEPT ![p] = NoRet]
               /\ UNCHANGED op
    /\ HistKeep
    /\ UNCHANGED <<max_restart_attempts, supState, osState, spawn_res, kill_res, stale,
                   failed_cause>>

\* a health_check() that leaves the stored stamp in place
Now_not_updated == last_health_check

\* SystemTime::now(): a stamp that differs from the stored one.  Stamps are only
\* compared for equality, so two of them tell a fresh stamp from the stored one.
Now == IF last_health_check = 1 THEN 2 ELSE 1

\* health_check(): the critical section of the Ok(response) and Err(err) arms
health_check_record(p) ==
    /\ pc[p] = "health_check_record"
    /\ last_health_check' = Now
    /\ IF probe_res[p] = "success"
       THEN /\ IF status # "Running"
               THEN status' = "Running" /\ restart_count' = 0 /\ failed_cause' = "none"
               ELSE UNCHANGED <<status, restart_count, failed_cause>>
            /\ UNCHANGED error_message
            /\ HistReset
       ELSE /\ status' = "Unhealthy"
            /\ failed_cause' = "none"
            /\ error_message' = IF probe_res[p] = "err" THEN "probe_err" ELSE error_message
            /\ UNCHANGED restart_count
            /\ HistFailedProbe(p)
    /\ pc' = [pc EXCEPT ![p] =
                 IF op[p] = "health_check" THEN "idle"
                 ELSE IF probe_res[p] = "success" THEN "supervise_sleep"
                 ELSE "supervise_check"]
    /\ ret' = [ret EXCEPT ![p] = [fn |-> "health_check",
                                  val |-> IF probe_res[p] = "success" THEN "true" ELSE "false"]]
    /\ op' = [op EXCEPT ![p] = IF op[p] = "health_check" THEN "none" ELSE op[p]]
    /\ probe_res' = [probe_res EXCEPT ![p] = "none"]
    /\ stale' = [stale EXCEPT ![p] = FALSE]
    /\ UNCHANGED <<max_restart_attempts, process_handle, osState, spawn_res, kill_res>>

\* restart(): the budget check and the increment, one critical section.  The
\* lock taken again for the log line only reads restart_count.  stop() always
\* returns Ok, so `self.stop().await?` always goes on to the pause.
restart_begin(p) ==
    /\ pc[p] = "restart_begin"
    /\ IF exhausted(restart_count)
       THEN /\ status' = exhausted_status
            /\ failed_cause' = IF exhausted_status = "Failed" THEN "budget" ELSE "none"
            /\ pc' = [pc EXCEPT ![p] = IF op[p] = "supervise" THEN "supervise_sleep" ELSE "idle"]
            /\ op' = [op EXCEPT ![p] = IF op[p] = "supervise" THEN "supervise" ELSE "none"]
            /\ ret' = [ret EXCEPT ![p] = [fn |-> "restart", val |-> "budget_err"]]
            /\ UNCHANGED restart_count
       ELSE /\ restart_count' = restart_count + 1
            /\ pc' = [pc EXCEPT ![p] = "stop"]
            /\ ret' = [ret EXCEPT ![p] = NoRet]
            /\ UNCHANGED <<status, failed_cause, op>>
    /\ HistRestartBegin(p, exhausted(restart_count))
    /\ UNCHANGED <<max_restart_attempts, process_handle, last_health_check, error_message,
                   osState, probe_res, spawn_res, kill_res, stale>>

\* restart(): the 2 s pause between stop() and start()
restart_sleep(p) ==
    /\ pc[p] = "restart_sleep"
    /\ pc' = [pc EXCEPT ![p] = "start_begin"]
    /\ kill_res' = [kill_res EXCEPT ![p] = "none"]
    /\ ret' = [ret EXCEPT ![p] = NoRet]
    /\ HistKeep
    /\ UNCHANGED <<max_restart_attempts, supState, osState, op, probe_res, spawn_res,
                   stale, failed_cause>>

\* supervise(): sleep(health_check_interval), then health_check()
supervise_sleep(p) ==
    /\ pc[p] = "supervise_sleep"
    /\ pc' = [pc EXCEPT ![p] = "health_check_probe"]
    /\ ret' = [ret EXCEPT ![p] = NoRet]
    /\ HistKeep
    /\ UNCHANGED <<max_restart_attempts, supState, osState, op, probe_res, spawn_res,
                   kill_res, stale, failed_cause>>

\* supervise(): the budget check after an unhealthy probe; break returns Ok(())
supervise_check(p) ==
    /\ pc[p] = "supervise_check"
    /\ IF restart_count < max_restart_attempts
       THEN /\ pc' = [pc EXCEPT ![p] = "restart_begin"]
            /\ ret' = [ret EXCEPT ![p] = NoRet]
            /\ UNCHANGED op
       ELSE /\ pc' = [pc EXCEPT ![p] = "idle"]
            /\ op' = [op EXCEPT ![p] = "none"]
            /\ ret' = [ret EXCEPT ![p] = [fn |-> "supervise", val |-> "ok"]]
    /\ HistKeep
    /\ UNCHANGED <<max_restart_attempts, supState, osState, probe_res, spawn_res,
                   kill_res, stale, failed_cause>>

\* =========================================================================
\* The embedding store (apps/desktop/src-tauri/src/ai/vector_store.rs): one
\* SQLite table `embeddings`.  Every call opens its own connection, so calls
\* interleave at the granularity of SQL statements and transactions.  Vector
\* components are small integers, for which the f32 products and sums of
\* cosine_similarity are exact; a score is kept as the exact quotient
\* num / sqrt(den2) instead of its f32 rounding.
\* =========================================================================

\* ------------------------------------------------------------------ bounds
MaxBatch == 2        \* records in one insert_embeddings call
MaxClock == 2        \* seconds the wall clock can reach
MaxTopK == 2         \* top_k is drawn from 0..MaxTopK

VARIABLES
    db,        \* table embeddings: the committed rows
    tx,        \* the write transaction of the insert_embeddings call in progress
    clock,     \* SystemTime::now() in seconds since the epoch
    outcome    \* value returned by the call that returned in the last step

storeVars == <<db, tx, clock, outcome>>

\* EmbeddingState (ai/state.rs) and the machine it runs on
VARIABLES
    ollama_client,   \* endpoint of EmbeddingState::ollama_client
    supervisor,      \* EmbeddingState::supervisor: None or the supervisor held
    supervisors,     \* state of every OllamaSupervisor that start() has returned Ok on
    children,        \* pids of the spawned children that are alive and were never signalled
    system_ollama,   \* detect_system_ollama() finds a system installation
    installed,       \* the bundler's install_path exists
    bundled,         \* the bundler's bundled_path exists
    command          \* value returned by the last command

machineState == <<system_ollama, installed, bundled>>
stateVars == <<ollama_client, supervisor, supervisors, children, machineState, command>>

\* the std::sync::Mutex around SupervisorState
VARIABLES
    lock,      \* the caller whose MutexGuard owns the mutex, or nobody
    locked     \* per caller: it is inside a `self.state.lock()` scope

lockVars == <<lock, locked>>

\* OllamaSupervisor::new: Mutex::new
LockInit ==
    /\ lock = NoProc
    /\ locked = [p \in Procs |-> FALSE]

allVars == <<vars, storeVars, stateVars, lockVars>>

NoFilter == "None"   \* Option::None for search's schema / table
NaN == 999           \* f32::NAN as a component: no finite component has this value

EmbeddingRecord(c, s, t, r, h, content, metadata, embedding) ==
    [connection_id |-> c, schema_name |-> s, table_name |-> t, row_reference |-> r,
     chunk_hash |-> h, content |-> content, metadata |-> metadata,
     embedding |-> embedding]

\* the records the calls are made with: one key written with two payloads,
\* the same row under a second chunk hash, and one record each in another
\* table, another schema (a zero vector) and another connection
RecA1 == EmbeddingRecord("c1", "public", "users", "r1", "h1", "a", "m1", <<1, 0>>)
RecA2 == EmbeddingRecord("c1", "public", "users", "r1", "h1", "b", "m2", <<0, 1>>)
RecB == EmbeddingRecord("c1", "public", "users", "r1", "h2", "b", "m2", <<0, 1>>)
RecC == EmbeddingRecord("c1", "public", "orders", "r1", "h1", "a", "m1", <<2, 0>>)
RecD == EmbeddingRecord("c1", "audit", "users", "r2", "h1", "a", "m1", <<0, 0>>)
RecE == EmbeddingRecord("c2", "public", "users", "r1", "h1", "a", "m1", <<1, 0>>)
\* the key of RecD with an empty vector, and with a vector that holds a NaN
RecD0 == EmbeddingRecord("c1", "audit", "users", "r2", "h1", "a", "m1", <<>>)
RecN == EmbeddingRecord("c1", "audit", "users", "r2", "h1", "a", "m1", <<NaN, 0>>)

StoreRecords == {RecA1, RecA2, RecB, RecC}
SearchRecords == {RecA1, RecA2, RecB, RecC, RecD, RecE, RecD0, RecN}
Connections == {"c1", "c2"}
Schemas == {"public", "audit"}
Tables == {"users", "orders"}
Queries == {<<1, 0>>, <<-1, 1>>, <<0, 0>>, <<>>}

\* sequences over S of length 0..n
Batches(S, n) == UNION {[1..m -> S] : m \in 0..n}

NoTx == [open |-> FALSE, batch |-> <<>>, records |-> <<>>, work |-> {}]
NoRequest ==
    [connection_id |-> "none", schema |-> NoFilter, table |-> NoFilter,
     query_embedding |-> <<>>, top_k |-> 0]
NoOutcome ==
    [fn |-> "none", err |-> FALSE, kind |-> "none", count |-> 0, matches |-> <<>>,
     request |-> NoRequest]

Returned(f, n) == [NoOutcome EXCEPT !.fn = f, !.count = n]

\* error.rs, From<rusqlite::Error>: the RowFlowError variant of a database error
from_rusqlite_error == "VectorStoreError"

\* error.rs, From<serde_json::Error>: the RowFlowError variant of a
\* (de)serialization error
from_serde_json_error == "SerializationError"

\* an Err of a database call; count keeps, as history, the statements the
\* call had executed
Failed(f, n) ==
    [NoOutcome EXCEPT !.fn = f, !.err = TRUE, !.kind = from_rusqlite_error, !.count = n]

\* VectorStore::new on a fresh path: initialize() creates an empty table
StoreInit ==
    /\ db = {}
    /\ tx = NoTx
    /\ clock = 1
    /\ outcome = NoOutcome

\* ------------------------------------------------------------ serde_json
\* serde_json::to_string(&record.embedding): one number token per component,
\* and the token null for a component that is not finite
to_string_embedding(v) ==
    [i \in DOMAIN v |-> IF v[i] = NaN THEN [t |-> "null", v |-> 0]
                                      ELSE [t |-> "num", v |-> v[i]]]

\* serde_json::from_str::<Vec<f32>>: fails on a token that is not a number
from_str_embedding(text) ==
    [ok |-> \A i \in DOMAIN text : text[i].t = "num",
     value |-> [i \in DOMAIN text |-> text[i].v]]

\* serde_json::to_string(&record.metadata)
to_string_metadata(m) == [json |-> m]

\* serde_json::from_str::<Value>
from_str_metadata(text) == [ok |-> TRUE, value |-> text.json]

\* ---------------------------------------------------------------- SQLite
current_timestamp == clock

Key(x) ==
    <<x.connection_id, x.schema_name, x.table_name, x.row_reference, x.chunk_hash>>

\* ON CONFLICT(connection_id, schema_name, table_name, row_reference, chunk_hash)
\* on the unique index idx_embeddings_unique
conflict_never(row, new) == FALSE

conflict_ignores_chunk_hash(row, new) ==
    /\ row.connection_id = new.connection_id
    /\ row.schema_name = new.schema_name
    /\ row.table_name = new.table_name
    /\ row.row_reference = new.row_reference

conflict(row, new) == Key(row) = Key(new)

\* the row bound to ?1..?9
Row(record, ts) ==
    [connection_id |-> record.connection_id, schema_name |-> record.schema_name,
     table_name |-> record.table_name, row_reference |-> record.row_reference,
     chunk_hash |-> record.chunk_hash, content |-> record.content,
     metadata |-> to_string_metadata(record.metadata),
     embedding |-> to_string_embedding(record.embedding),
     created_at |-> ts]

\* INSERT INTO embeddings ... ON CONFLICT ... DO UPDATE SET content, metadata,
\* embedding, created_at = excluded.*
Execute(table, record, ts) ==
    LET new == Row(record, ts)
        hit == {row \in table : conflict(row, new)}
    IN  IF hit = {}
        THEN table \cup {new}
        ELSE (table \ hit) \cup
             {[row EXCEPT !.content = new.content, !.metadata = new.metadata,
                          !.embedding = new.embedding, !.created_at = new.created_at]
                : row \in hit}

\* the transaction holds SQLite's write lock from its first statement on
write_locked == tx.open /\ Len(tx.records) < Len(tx.batch)

\* the table as the transaction's next statement sees it
working == IF write_locked THEN tx.work ELSE db

\* dropping the Transaction without commit(): ROLLBACK
rolled_back_keeps_work == working

rolled_back == db

\* what the connection of another call reads: committed rows only
snapshot_dirty == working

snapshot == db

\* ----------------------------------------------------- cosine_similarity
Min(a, b) == IF a <= b THEN a ELSE b

RECURSIVE dot_upto(_, _, _)
\* a.iter().zip(b).map(|(lhs, rhs)| lhs * rhs).sum() over the first n pairs
dot_upto(a, b, n) == IF n = 0 THEN 0 ELSE dot_upto(a, b, n - 1) + a[n] * b[n]

dot(a, b) == dot_upto(a, b, Min(Len(a), Len(b)))

\* the square of a.iter().map(|value| value * value).sum().sqrt()
norm2(a) == dot_upto(a, a, Len(a))

\* the score 0.0
Zero == [num |-> 0, den2 |-> 1]

cosine_similarity_not_normalised(a, b) == [num |-> dot(a, b), den2 |-> 1]

\* without the test for a zero norm: 0 / 0
cosine_similarity_unguarded(a, b) == [num |-> dot(a, b), den2 |-> norm2(a) * norm2(b)]

\* the score num / sqrt(den2)
cosine_similarity(a, b) ==
    IF norm2(a) = 0 \/ norm2(b) = 0
    THEN Zero
    ELSE [num |-> dot(a, b), den2 |-> norm2(a) * norm2(b)]

\* x |-> sign(x) * x^2 is increasing, so scores compare as these do
SignedSquare(s) == IF s.num < 0 THEN 0 - s.num * s.num ELSE s.num * s.num

\* f32 partial_cmp(s1, s2) = Some(Less)
ScoreLess(s1, s2) == SignedSquare(s1) * s2.den2 < SignedSquare(s2) * s1.den2

\* the score 1.0
IsOne(s) == s.num > 0 /\ s.num * s.num = s.den2

\* ----------------------------------------------------------------- search
\* the comparator of results.sort_by returns Less
sorts_before_ascending(a, b) == ScoreLess(a.score, b.score)

sorts_before(a, b) == ScoreLess(b.score, a.score)

RECURSIVE sort_by(_)
\* Vec::sort_by, a stable sort: an element stays behind those it does not
\* sort before
sort_by(s) ==
    IF s = <<>>
    THEN <<>>
    ELSE LET n == Len(s) - 1
             rest == sort_by(SubSeq(s, 1, n))
             x == s[n + 1]
             keep == {i \in 1..n : \A j \in i..n : sorts_before(x, rest[j])}
             at == IF keep = {} THEN n ELSE (CHOOSE i \in keep : \A j \in keep : i <= j) - 1
         IN  SubSeq(rest, 1, at) \o <<x>> \o SubSeq(rest, at + 1, n)

\* Vec::truncate
truncate(s, k) == SubSeq(s, 1, Min(k, Len(s)))

\* a WHERE clause without its connection_id term
Selected_in_any_connection(table, c, s, t) ==
    {row \in table : /\ s # NoFilter => row.schema_name = s
                     /\ t # NoFilter => row.table_name = t}

\* WHERE connection_id = ? [AND schema_name = ?] [AND table_name = ?]
Selected(table, c, s, t) ==
    {row \in table : /\ row.connection_id = c
                     /\ s # NoFilter => row.schema_name = s
                     /\ t # NoFilter => row.table_name = t}

\* a WHERE clause without its table_name term
Deleted_in_any_table(table, c, s, t) ==
    {row \in table : row.connection_id = c /\ row.schema_name = s}

\* WHERE connection_id = ?1 AND schema_name = ?2 AND table_name = ?3
Deleted(table, c, s, t) ==
    {row \in table : /\ row.connection_id = c
                     /\ row.schema_name = s
                     /\ row.table_name = t}

\* the orders in which the SELECT, which has no ORDER BY, can yield the rows
ScanOrders(rows) ==
    {o \in [1..Cardinality(rows) -> rows] : \A i, j \in DOMAIN o : o[i] = o[j] => i = j}

\* the EmbeddingSearchMatch pushed for one row
Match(row, query_embedding) ==
    [row_reference |-> row.row_reference, schema |-> row.schema_name,
     table |-> row.table_name,
     score |-> cosine_similarity(query_embedding, from_str_embedding(row.embedding).value),
     content |-> row.content, metadata |-> from_str_metadata(row.metadata).value]

Parses(row) == from_str_metadata(row.metadata).ok /\ from_str_embedding(row.embedding).ok

\* ----------------------------------------------------------------- calls
\* insert_embeddings up to `let tx = conn.transaction()?` and the prepare
insert_begin(records, ok) ==
    /\ ~tx.open
    /\ IF records = <<>>
       THEN /\ outcome' = Returned("insert_embeddings", 0)
            /\ UNCHANGED tx
       ELSE IF ok
       THEN /\ tx' = [open |-> TRUE, batch |-> records, records |-> records, work |-> db]
            /\ outcome' = NoOutcome
       ELSE /\ outcome' = Failed("insert_embeddings", 0)
            /\ UNCHANGED tx
    /\ UNCHANGED <<db, clock>>

\* one turn of `for record in records`: the two to_string and stmt.execute
insert_execute(ok) ==
    /\ tx.open
    /\ tx.records # <<>>
    /\ IF ok
       THEN /\ tx' = [tx EXCEPT !.records = Tail(tx.records),
                                !.work = Execute(working, Head(tx.records),
                                                 current_timestamp)]
            /\ outcome' = NoOutcome
            /\ UNCHANGED db
       ELSE /\ tx' = NoTx
            /\ db' = rolled_back
            /\ outcome' = Failed("insert_embeddings", Len(tx.batch) - Len(tx.records))
    /\ UNCHANGED clock

\* tx.commit()
insert_commit(ok) ==
    /\ tx.open
    /\ tx.records = <<>>
    /\ IF ok
       THEN /\ db' = tx.work
            /\ outcome' = Returned("insert_embeddings", Len(tx.batch))
       ELSE /\ db' = rolled_back
            /\ outcome' = Failed("insert_embeddings", Len(tx.batch))
    /\ tx' = NoTx
    /\ UNCHANGED clock

\* DELETE FROM embeddings WHERE connection_id = ?1 AND schema_name = ?2 AND
\* table_name = ?3, in autocommit; it waits while another connection holds the
\* write lock
delete_table_embeddings(c, s, t) ==
    /\ ~write_locked
    /\ db' = db \ Deleted(db, c, s, t)
    /\ outcome' = [Returned("delete_table_embeddings", Cardinality(Deleted(db, c, s, t)))
                      EXCEPT !.request = [NoRequest EXCEPT !.connection_id = c,
                                                           !.schema = s, !.table = t]]
    /\ UNCHANGED <<tx, clock>>

search(c, s, t, query_embedding, top_k) ==
    /\ outcome.fn # "search"
    /\ \E order \in ScanOrders(Selected(snapshot, c, s, t)) :
          LET request == [connection_id |-> c, schema |-> s, table |-> t,
                          query_embedding |-> query_embedding, top_k |-> top_k]
              results == [i \in DOMAIN order |-> Match(order[i], query_embedding)]
          IN  IF \A i \in DOMAIN order : Parses(order[i])
              THEN outcome' = [NoOutcome EXCEPT !.fn = "search",
                                   !.matches = truncate(sort_by(results), top_k),
                                   !.request = request]
              ELSE outcome' = [NoOutcome EXCEPT !.fn = "search", !.err = TRUE,
                                   !.kind = from_serde_json_error,
                                   !.request = request]
    /\ UNCHANGED <<db, tx, clock>>

\* the caller of search drops the matches it was returned
drop_matches ==
    /\ outcome.fn = "search"
    /\ outcome' = NoOutcome
    /\ UNCHANGED <<db, tx, clock>>

\* a second passes
tick ==
    /\ clock < MaxClock
    /\ clock' = clock + 1
    /\ UNCHANGED <<db, tx, outcome>>

\* callers that write in batches while one query is repeated
StoreNext ==
    \/ \E records \in Batches(StoreRecords, MaxBatch), ok \in BOOLEAN :
          insert_begin(records, ok) /\ UNCHANGED <<vars, stateVars, lockVars>>
    \/ \E ok \in BOOLEAN : insert_execute(ok) /\ UNCHANGED <<vars, stateVars, lockVars>>
    \/ \E ok \in BOOLEAN : insert_commit(ok) /\ UNCHANGED <<vars, stateVars, lockVars>>
    \/ \E t \in Tables : delete_table_embeddings("c1", "public", t) /\ UNCHANGED <<vars, stateVars, lockVars>>
    \/ \E s \in {NoFilter, "public"}, t \in {NoFilter, "users"} :
          search("c1", s, t, <<1, 0>>, MaxTopK) /\ UNCHANGED <<vars, stateVars, lockVars>>
    \/ drop_matches /\ UNCHANGED <<vars, stateVars, lockVars>>
    \/ tick /\ UNCHANGED <<vars, stateVars, lockVars>>

\* one caller that writes one record at a time and, between its writes,
\* queries in every way
SearchNext ==
    \/ \E record \in SearchRecords, ok \in BOOLEAN :
          insert_begin(<<record>>, ok) /\ UNCHANGED <<vars, stateVars, lockVars>>
    \/ \E ok \in BOOLEAN : insert_execute(ok) /\ UNCHANGED <<vars, stateVars, lockVars>>
    \/ \E ok \in BOOLEAN : insert_commit(ok) /\ UNCHANGED <<vars, stateVars, lockVars>>
    \/ \E c \in Connections, s \in Schemas, t \in Tables :
          delete_table_embeddings(c, s, t) /\ UNCHANGED <<vars, stateVars, lockVars>>
    \/ \E c \in Connections, s \in {NoFilter} \cup Schemas, t \in {NoFilter} \cup Tables,
          q \in Queries, k \in 0..MaxTopK :
          ~tx.open /\ search(c, s, t, q, k) /\ UNCHANGED <<vars, stateVars, lockVars>>
    \/ drop_matches /\ UNCHANGED <<vars, stateVars, lockVars>>

\* =========================================================================
\* EmbeddingState: the start_ollama and stop_ollama commands.  Both commands
\* take the tokio mutex around the EmbeddingState for the whole call, so each
\* command is one step.  No command spawns supervise(), so a supervisor held
\* by the EmbeddingState changes only inside start() and stop().
\* =========================================================================

MaxSupervisors == 3  \* supervisors that start() returns Ok on in one run

DefaultEndpoint == 11434   \* OllamaClient::new(None), and the system Ollama's port
ManagedEndpoint == 11435   \* SupervisorConfig.port of the supervised instance

\* EmbeddingState::new
EmbeddingState_new ==
    /\ ollama_client = DefaultEndpoint
    /\ supervisor = None
    /\ supervisors = <<>>
    /\ children = {}
    /\ command = NoRet

\* a new EmbeddingState on any machine
StateInit ==
    /\ EmbeddingState_new
    /\ system_ollama \in BOOLEAN
    /\ installed \in BOOLEAN
    /\ bundled \in BOOLEAN

\* a new EmbeddingState on a machine without any Ollama
StateUnused ==
    /\ EmbeddingState_new
    /\ system_ollama = FALSE
    /\ installed = FALSE
    /\ bundled = FALSE

\* OllamaSupervisor::new followed by a start() whose spawn returned pid
started_supervisor(pid) ==
    [status |-> "Running", process_handle |-> pid, restart_count |-> 0]

\* OllamaSupervisor::stop on the state s of one supervisor
stopped_supervisor(s) ==
    IF stop_returns_early(s.status) THEN s
    ELSE [status |-> stopped_state.status,
          process_handle |-> stopped_state.process_handle,
          restart_count |-> stopped_state.restart_count]

\* the child that stop() signals on the state s
signalled(s) ==
    IF stop_returns_early(s.status) \/ s.process_handle = None THEN {}
    ELSE {s.process_handle}

\* command start_ollama -> EmbeddingState::start_supervised_ollama
start_ollama(install_ok, initialize_ok, spawn_ok) ==
    IF system_ollama
    THEN /\ ollama_client' = DefaultEndpoint
         /\ command' = [fn |-> "start_ollama", val |-> "ok"]
         /\ UNCHANGED <<supervisor, supervisors, children, machineState>>
    ELSE IF ~installed /\ ~bundled
    THEN /\ command' = [fn |-> "start_ollama", val |-> "not_installed"]
         /\ UNCHANGED <<ollama_client, supervisor, supervisors, children, machineState>>
    ELSE IF ~installed /\ ~install_ok
    THEN /\ command' = [fn |-> "start_ollama", val |-> "install_err"]
         /\ UNCHANGED <<ollama_client, supervisor, supervisors, children, machineState>>
    ELSE /\ installed' = TRUE
         /\ UNCHANGED <<system_ollama, bundled>>
         /\ IF ~initialize_ok
            THEN /\ command' = [fn |-> "start_ollama", val |-> "initialize_err"]
                 /\ UNCHANGED <<ollama_client, supervisor, supervisors, children>>
            ELSE IF ~spawn_ok
            THEN /\ command' = [fn |-> "start_ollama", val |-> "spawn_err"]
                 /\ UNCHANGED <<ollama_client, supervisor, supervisors, children>>
            ELSE /\ Len(supervisors) < MaxSupervisors
                 /\ LET pid == Len(supervisors) + 1 IN
                      /\ supervisors' = Append(supervisors, started_supervisor(pid))
                      /\ children' = children \cup {pid}
                      /\ supervisor' = pid
                 /\ ollama_client' = ManagedEndpoint
                 /\ command' = [fn |-> "start_ollama", val |-> "ok"]

\* command stop_ollama
stop_ollama ==
    /\ IF supervisor # None
       THEN /\ supervisors' = [supervisors EXCEPT
                                 ![supervisor] = stopped_supervisor(supervisors[supervisor])]
            /\ children' = children \ signalled(supervisors[supervisor])
       ELSE UNCHANGED <<supervisors, children>>
    /\ command' = [fn |-> "stop_ollama", val |-> "ok"]
    /\ UNCHANGED <<ollama_client, supervisor, machineState>>

\* a child exits on its own
child_exits(pid) ==
    /\ pid \in children
    /\ children' = children \ {pid}
    /\ command' = NoRet
    /\ UNCHANGED <<ollama_client, supervisor, supervisors, machineState>>

\* the user installs or removes a system-wide Ollama
system_ollama_changes ==
    /\ system_ollama' = ~system_ollama
    /\ command' = NoRet
    /\ UNCHANGED <<ollama_client, supervisor, supervisors, children, installed, bundled>>

\* the two commands, in any order, on a machine that changes under them
StateNext ==
    \/ \E install_ok \in BOOLEAN, initialize_ok \in BOOLEAN, spawn_ok \in BOOLEAN :
          start_ollama(install_ok, initialize_ok, spawn_ok) /\ UNCHANGED <<vars, storeVars, lockVars>>
    \/ stop_ollama /\ UNCHANGED <<vars, storeVars, lockVars>>
    \/ \E pid \in 1..MaxSupervisors : child_exits(pid) /\ UNCHANGED <<vars, storeVars, lockVars>>
    \/ system_ollama_changes /\ UNCHANGED <<vars, storeVars, lockVars>>

\* a fresh store; the supervisor stays as new() left it
StoreSpecInit == StoreInit /\ Init /\ StateUnused /\ LockInit /\ max_restart_attempts = 1

StoreSpec == StoreSpecInit /\ [][StoreNext]_allVars

SearchSpec == StoreSpecInit /\ [][SearchNext]_allVars

\* a fresh EmbeddingState; the store and the supervisor of the other parts stay as built
StateSpecInit == StoreInit /\ Init /\ StateInit /\ LockInit /\ max_restart_attempts = 1

StateSpec == StateSpecInit /\ [][StateNext]_allVars

\* ---------------------------------------------------- supervisor system
\* the supervisor system; the store is left as created
Next ==
    \E p \in Procs :
        \/ \E f \in Functions : Call(p, f) /\ UNCHANGED <<storeVars, stateVars, lockVars>>
        \/ start_begin(p) /\ UNCHANGED <<storeVars, stateVars, lockVars>>
        \/ start_spawn(p) /\ UNCHANGED <<storeVars, stateVars, lockVars>>
        \/ start_record(p) /\ UNCHANGED <<storeVars, stateVars, lockVars>>
        \/ stop(p) /\ UNCHANGED <<storeVars, stateVars, lockVars>>
        \/ health_check_probe(p) /\ UNCHANGED <<storeVars, stateVars, lockVars>>
        \/ health_check_record(p) /\ UNCHANGED <<storeVars, stateVars, lockVars>>
        \/ restart_begin(p) /\ UNCHANGED <<storeVars, stateVars, lockVars>>
        \/ restart_sleep(p) /\ UNCHANGED <<storeVars, stateVars, lockVars>>
        \/ supervise_sleep(p) /\ UNCHANGED <<storeVars, stateVars, lockVars>>
        \/ supervise_check(p) /\ UNCHANGED <<storeVars, stateVars, lockVars>>

SupervisorInit == Init /\ StoreInit /\ StateUnused /\ LockInit

Spec == SupervisorInit /\ [][Next]_allVars

\* supervise() alone with a machine on which every probe fails and every spawn
\* succeeds, while a caller polls health_check()
LoopNext ==
    \/ Call("task", "supervise") /\ UNCHANGED <<storeVars, stateVars, lockVars>>
    \/ Call("caller", "health_check") /\ UNCHANGED <<storeVars, stateVars, lockVars>>
    \/ \E p \in Procs :
          /\ health_check_probe(p)
          /\ probe_res'[p] \in {"err", "nonsuccess"}
          /\ UNCHANGED <<storeVars, stateVars, lockVars>>
    \/ \E p \in Procs : health_check_record(p) /\ UNCHANGED <<storeVars, stateVars, lockVars>>
    \/ supervise_sleep("task") /\ UNCHANGED <<storeVars, stateVars, lockVars>>
    \/ supervise_check("task") /\ UNCHANGED <<storeVars, stateVars, lockVars>>
    \/ restart_begin("task") /\ UNCHANGED <<storeVars, stateVars, lockVars>>
    \/ stop("task") /\ UNCHANGED <<storeVars, stateVars, lockVars>>
    \/ restart_sleep("task") /\ UNCHANGED <<storeVars, stateVars, lockVars>>
    \/ start_begin("task") /\ UNCHANGED <<storeVars, stateVars, lockVars>>
    \/ start_spawn("task") /\ spawn_res'["task"] > 0 /\ UNCHANGED <<storeVars, stateVars, lockVars>>
    \/ start_record("task") /\ UNCHANGED <<storeVars, stateVars, lockVars>>

LoopSpec == SupervisorInit /\ [][LoopNext]_allVars

\* =========================================================================
\* The mutex.  In the specifications above a `self.state.lock()` scope is one
\* step; here taking the mutex is a step of its own, which waits while another
\* guard owns the mutex, and the scope's body is the step that follows.
\* =========================================================================

\* the positions at which the code calls self.state.lock()
Sections == {"start_begin", "start_record", "stop", "health_check_record",
             "restart_begin", "supervise_check", "status"}

\* a scope that ends with its guard still alive
dropped_never(p) == p

\* the owner of the mutex once the guard of p goes out of scope or is dropped
dropped(p) == NoProc

\* self.state.lock(): blocks while the mutex is owned, by anyone
lock_state(p) ==
    /\ pc[p] \in Sections
    /\ ~locked[p]
    /\ lock = NoProc
    /\ lock' = p
    /\ locked' = [locked EXCEPT ![p] = TRUE]
    /\ UNCHANGED <<vars, storeVars, stateVars>>

\* the body A of a lock scope of p, up to the end of the scope
Section(p, A) ==
    /\ locked[p]
    /\ A
    /\ locked' = [locked EXCEPT ![p] = FALSE]
    /\ lock' = dropped(p)
    /\ UNCHANGED <<storeVars, stateVars>>

\* a step A outside every lock scope: an await or a spawn
Outside(A) == A /\ UNCHANGED <<storeVars, stateVars, lockVars>>

\* OllamaSupervisor::status
status_read(p) ==
    /\ pc[p] = "status"
    /\ pc' = [pc EXCEPT ![p] = "idle"]
    /\ op' = [op EXCEPT ![p] = "none"]
    /\ ret' = [ret EXCEPT ![p] = [fn |-> "status", val |-> status]]
    /\ HistKeep
    /\ UNCHANGED <<max_restart_attempts, supState, osState, probe_res, spawn_res,
                   kill_res, stale, failed_cause>>

\* the steps of p between its call and its return, the wait for the mutex excluded
Run(p) ==
    \/ Section(p, start_begin(p))
    \/ Outside(start_spawn(p))
    \/ Section(p, start_record(p))
    \/ Section(p, stop(p))
    \/ Outside(health_check_probe(p))
    \/ Section(p, health_check_record(p))
    \/ Section(p, restart_begin(p))
    \/ Outside(restart_sleep(p))
    \/ Outside(supervise_sleep(p))
    \/ Section(p, supervise_check(p))
    \/ Section(p, status_read(p))

\* what the caller calls while supervise() runs; start() and restart() run
\* inside supervise()
Polled == {"stop", "health_check", "status"}

LockNext ==
    \E p \in Procs :
        \/ \E f \in Polled \cup {"supervise"} : Outside(Call(p, f))
        \/ lock_state(p)
        \/ Section(p, start_begin(p))
        \/ Outside(start_spawn(p))
        \/ Section(p, start_record(p))
        \/ Section(p, stop(p))
        \/ Outside(health_check_probe(p))
        \/ Section(p, health_check_record(p))
        \/ Section(p, restart_begin(p))
        \/ Outside(restart_sleep(p))
        \/ Outside(supervise_sleep(p))
        \/ Section(p, supervise_check(p))
        \/ Section(p, status_read(p))

LockSpecInit == Init /\ StoreInit /\ StateUnused /\ LockInit /\ max_restart_attempts = 1

\* every caller that can take a step takes one, and a caller that waits for a
\* mutex that is released again and again gets it
Fairness ==
    \A p \in Procs : WF_allVars(Run(p)) /\ SF_allVars(lock_state(p))

LockSpec == LockSpecInit /\ [][LockNext]_allVars /\ Fairness

TypeOK ==
    /\ max_restart_attempts \in 1..MaxAttempts
    /\ status \in OllamaProcessStatus
    /\ process_handle \in {None} \cup Pids
    /\ restart_count \in 0..MaxAttempts
    /\ last_health_check \in {None, 1, 2}
    /\ spawned \in 0..MaxSpawns
    /\ running \subseteq 1..spawned
    /\ error_message \in {"None", "spawn_err", "probe_err"}
    /\ rounds \in 0..MaxAttempts

\* ------------------------------------------------------------------ claims
\* p leaves the code position l in this step
StepAt(p, l) == pc[p] = l /\ pc'[p] # l

Ret(f, v) == [fn |-> f, val |-> v]

\* p is inside a restart() (called directly or by supervise) past its budget check
InRestart(p) ==
    /\ op[p] \in {"restart", "supervise"}
    /\ pc[p] \in {"stop", "restart_sleep", "start_begin", "start_spawn", "start_record"}

\* C1: with max_restart_attempts = N, after N consecutive rounds of a failed
\* health_check() followed by restart(), status is Failed and a further
\* restart() takes the budget-exhausted branch at once.
C1_BudgetReachedAfterNRounds ==
    rounds >= max_restart_attempts =>
        (status = "Failed" /\ exhausted(restart_count))

C3_OneTrackedChild ==
    /\ Cardinality(running) <= 1
    /\ running \subseteq ({process_handle} \cup {spawn_res[p] : p \in Procs})

\* C4: no call writes a status it decided before a stop() of another call
\* completed: a start() or health_check() overtaken by a stop() leaves the
\* status as it finds it.
C4_NoStaleOverwrite ==
    [][\A p \in Procs :
          (stale[p] /\ (StepAt(p, "start_record") \/ StepAt(p, "health_check_record")))
             => status' = status]_vars

\* C5: a stop() in any status other than Stopped returns Ok and leaves status
\* Stopped, no process_handle and restart_count 0, whatever kill() returned.
C5_StopAlwaysStops ==
    [][\A p \in Procs :
          (StepAt(p, "stop") /\ status # "Stopped") =>
             /\ status' = "Stopped"
             /\ process_handle' = None
             /\ restart_count' = 0
             /\ ret'[p] = Ret("stop", "ok")]_vars

\* a directly called stop() has returned Ok after a kill() that failed
C5_Witness ==
    /\ pc["caller"] = "idle"
    /\ ret["caller"] = Ret("stop", "ok")
    /\ kill_res["caller"] = "err"
    /\ status = "Stopped" /\ process_handle = None /\ restart_count = 0

\* C6: once restart() calls have completed, a successful health_check() leaves
\* restart_count 0 and status Running.
C6_HealthyProbeResetsCount ==
    [][\A p \in Procs :
          (/\ StepAt(p, "health_check_record")
           /\ probe_res[p] = "success"
           /\ \A q \in Procs : ~InRestart(q) /\ pc[q] # "restart_begin")
             => (status' = "Running" /\ restart_count' = 0)]_vars

\* C7: restart() with restart_count >= max_restart_attempts sets Failed and
\* returns the error; it does not count, signal, clear the handle or spawn.
C7_ExhaustedRestartDoesNothing ==
    [][\A p \in Procs :
          (StepAt(p, "restart_begin") /\ restart_count >= max_restart_attempts) =>
             /\ status' = "Failed"
             /\ ret'[p] = Ret("restart", "budget_err")
             /\ pc'[p] \in {"idle", "supervise_sleep"}
             /\ UNCHANGED <<restart_count, process_handle, spawned, running>>]_vars

\* a restart() has returned the budget error while a child is still recorded
\* and unsignalled
C7_Witness ==
    /\ ret["caller"] = Ret("restart", "budget_err")
    /\ pc["caller"] = "idle"
    /\ status = "Failed"
    /\ restart_count >= max_restart_attempts
    /\ process_handle # None
    /\ process_handle \in running

\* C8: whenever status is Failed, error_message is present and describes the
\* failure that set Failed: the spawn error after a failed spawn, and some
\* recorded failure after an exhausted restart budget.
C8_FailedHasItsMessage ==
    status = "Failed" =>
        /\ error_message # "None"
        /\ failed_cause = "spawn" => error_message = "spawn_err"

\* C9: when supervise() leaves its loop because the budget is exhausted, status
\* is Failed.
C9_SuperviseExitsFailed ==
    [][\A p \in Procs :
          (StepAt(p, "supervise_check") /\ pc'[p] = "idle") => status' = "Failed"]_vars

\* C10: when supervise() leaves its loop because the budget is exhausted, it
\* returns the budget-exhausted error, not Ok.
C10_SuperviseReturnsBudgetError ==
    [][\A p \in Procs :
          (StepAt(p, "supervise_check") /\ pc'[p] = "idle")
             => ret'[p] = Ret("supervise", "budget_err")]_vars

\* C11: a failed probe (network error or non-success response) makes
\* health_check() return false, not an error, sets status to Unhealthy and
\* stores a fresh last_health_check.
C11_FailedProbeReturnsFalse ==
    [][\A p \in Procs :
          (StepAt(p, "health_check_record") /\ probe_res[p] \in {"err", "nonsuccess"}) =>
             /\ ret'[p] = Ret("health_check", "false")
             /\ status' = "Unhealthy"
             /\ last_health_check' # None
             /\ last_health_check' # last_health_check]_vars

\* a direct health_check() has returned false and left a second stamp
C11_Witness ==
    /\ pc["caller"] = "idle"
    /\ ret["caller"] = Ret("health_check", "false")
    /\ status = "Unhealthy"
    /\ last_health_check = 2

\* C12: every failed probe, network error and non-success response alike,
\* leaves the detail of that failure in error_message.
C12_FailedProbeRecordsDetail ==
    [][\A p \in Procs :
          (StepAt(p, "health_check_record") /\ probe_res[p] \in {"err", "nonsuccess"}) =>
             error_message' \in {"probe_err", "http_status_err"}]_vars

\* C13: when the spawn fails, start() returns the error, sets Failed, stores
\* the spawn error and leaves process_handle and restart_count alone.
C13_SpawnFailure ==
    [][\A p \in Procs :
          (StepAt(p, "start_record") /\ spawn_res[p] < 0) =>
             /\ ret'[p] = Ret(IF op[p] = "start" THEN "start" ELSE "restart", "spawn_err")
             /\ status' = "Failed"
             /\ error_message' = "spawn_err"
             /\ UNCHANGED <<process_handle, restart_count>>]_vars

\* a direct start() failed to spawn while an earlier child was still recorded
C13_Witness ==
    /\ pc["caller"] = "idle"
    /\ ret["caller"] = Ret("start", "spawn_err")
    /\ status = "Failed"
    /\ error_message = "spawn_err"
    /\ process_handle # None

\* C14: stop() on a Stopped supervisor returns Ok, signals nothing and leaves
\* every field of SupervisorState as it was.
C14_StopOnStoppedIsNoOp ==
    [][\A p \in Procs :
          (StepAt(p, "stop") /\ status = "Stopped") =>
             /\ ret'[p] = Ret("stop", "ok")
             /\ UNCHANGED <<supState, osState>>]_vars

\* stop() has returned on a supervisor that was never started, probed or
\* restarted
C14_Witness ==
    /\ pc["caller"] = "idle"
    /\ ret["caller"] = Ret("stop", "ok")
    /\ kill_res["caller"] = "none"
    /\ pc["task"] = "idle" /\ ret["task"] = NoRet
    /\ status = "Stopped" /\ process_handle = None /\ restart_count = 0
    /\ last_health_check = None /\ error_message = "None" /\ spawned = 0

\* C15: status = Stopped implies there is no process_handle, and a handle that
\* is present names a child that was spawned.
C15_StoppedHasNoHandle ==
    /\ status = "Stopped" => process_handle = None
    /\ process_handle # None => process_handle \in 1..spawned

\* a stop() has signalled a recorded child and left Stopped
C15_Witness ==
    /\ status = "Stopped"
    /\ spawned >= 1
    /\ \E p \in Procs : ret[p] = Ret("stop", "ok") /\ kill_res[p] = "ok"

\* ------------------------------------------------- claims about the store
UniqueKeys(table) == \A r1, r2 \in table : Key(r1) = Key(r2) => r1 = r2

\* this step is a stmt.execute that succeeded
ExecuteStep == tx.open /\ tx'.open /\ Len(tx'.records) < Len(tx.records)

\* this step is a tx.commit() that succeeded
CommitStep == tx.open /\ ~tx'.open /\ outcome'.fn = "insert_embeddings" /\ ~outcome'.err

\* this step is an insert_embeddings that fails inside its transaction
RollbackStep == tx.open /\ ~tx'.open /\ outcome'.fn = "insert_embeddings" /\ outcome'.err

\* this step is a search
SearchStep == outcome.fn # "search" /\ outcome'.fn = "search"

\* row holds the payload of record
HoldsPayload(row, record) ==
    /\ row.content = record.content
    /\ from_str_metadata(row.metadata).value = record.metadata
    /\ from_str_embedding(row.embedding).value = record.embedding

\* the last record of batch with the key of batch[i]
LastWithKey(batch, i) ==
    batch[CHOOSE j \in DOMAIN batch :
             /\ Key(batch[j]) = Key(batch[i])
             /\ \A l \in DOMAIN batch : Key(batch[l]) = Key(batch[i]) => l <= j]

\* C16: no two rows, stored or written by the open transaction, share the
\* five-part key; an upsert leaves exactly one row with the record's key,
\* holding the record's content, metadata and embedding and the time of the
\* upsert; after a commit each key of the batch has exactly one stored row,
\* holding the payload of the last record of the batch with that key.
C16_UpsertKeepsKeysUnique ==
    [][/\ UniqueKeys(db')
       /\ tx'.open => UniqueKeys(tx'.work)
       /\ ExecuteStep =>
             LET record == Head(tx.records)
             IN  {row \in tx'.work : Key(row) = Key(record)} = {Row(record, clock)}
       /\ CommitStep =>
             \A i \in DOMAIN tx.batch :
                LET rows == {row \in db' : Key(row) = Key(tx.batch[i])}
                IN  /\ Cardinality(rows) = 1
                    /\ \A row \in rows : /\ HoldsPayload(row, LastWithKey(tx.batch, i))
                                         /\ row.created_at <= clock]_allVars

\* a batch of two records has been committed and left the single row of their
\* key with the second payload and the later time
C16_Witness ==
    /\ outcome = Returned("insert_embeddings", 2)
    /\ db = {Row(RecA2, 2)}

\* C17: an insert_embeddings that fails returns an error and leaves the stored
\* rows as they were; while a batch holds the write lock the stored rows
\* change only by its commit, which stores the whole batch.
C17_FailedBatchStoresNothing ==
    [][/\ RollbackStep => db' = db /\ tx' = NoTx
       /\ (write_locked /\ db' # db) => (CommitStep /\ db' = tx.work)]_allVars

\* a batch failed after one of its statements had been executed, and nothing
\* of it is stored
C17_Witness ==
    /\ outcome = Failed("insert_embeddings", 1)
    /\ db = {}

\* C18: a search sees committed rows only: while a batch is being applied it
\* returns none of the batch's writes, and the commit publishes all of them in
\* one step.
C18_SearchSeesNoPartialBatch ==
    [][/\ SearchStep =>
             LET request == outcome'.request
                 rows == Selected(db, request.connection_id, request.schema,
                                  request.table)
             IN  /\ Len(outcome'.matches) = Min(request.top_k, Cardinality(rows))
                 /\ \A i \in DOMAIN outcome'.matches :
                       \E row \in rows :
                          outcome'.matches[i] = Match(row, request.query_embedding)
       /\ CommitStep =>
             \A i \in DOMAIN tx.batch : \E row \in db' : Key(row) = Key(tx.batch[i])]_allVars

\* a search over the whole connection returned nothing while the first of two
\* records had been written by the open transaction
C18_Witness ==
    /\ write_locked
    /\ Len(tx.batch) = 2 /\ Len(tx.records) = 1
    /\ tx.work # {}
    /\ db = {}
    /\ outcome.fn = "search" /\ ~outcome.err
    /\ outcome.request.schema = NoFilter /\ outcome.request.table = NoFilter
    /\ outcome.matches = <<>>

\* the request of the search that returned, and the rows it selects
Request == outcome.request
Candidates == Selected(db, Request.connection_id, Request.schema, Request.table)
Score(row) == Match(row, Request.query_embedding).score
Embedding(row) == from_str_embedding(row.embedding).value

\* C19: a search returns min(top_k, candidates) matches of distinct candidate
\* rows, ordered by non-increasing score, the i-th match scoring no lower than
\* the i-th best candidate; with no candidate it returns the empty list.
C19_TopKBestInOrder ==
    (outcome.fn = "search" /\ \A row \in Candidates : Parses(row)) =>
        LET m == outcome.matches
        IN  /\ ~outcome.err
            /\ Len(m) = Min(Request.top_k, Cardinality(Candidates))
            /\ \A i, j \in DOMAIN m : i < j => ~ScoreLess(m[i].score, m[j].score)
            /\ \E f \in [DOMAIN m -> Candidates] :
                  /\ \A i, j \in DOMAIN m : f[i] = f[j] => i = j
                  /\ \A i \in DOMAIN m : m[i] = Match(f[i], Request.query_embedding)
            /\ \A i \in DOMAIN m :
                  Cardinality({row \in Candidates : ScoreLess(m[i].score, Score(row))}) < i

\* a search returned the two best of at least three candidates, the first
\* scoring strictly higher than the second
C19_Witness ==
    /\ outcome.fn = "search" /\ ~outcome.err
    /\ Request.top_k = 2
    /\ Cardinality(Candidates) >= 3
    /\ Len(outcome.matches) = 2
    /\ ScoreLess(outcome.matches[2].score, outcome.matches[1].score)
    /\ \E row \in Candidates : ScoreLess(Score(row), outcome.matches[2].score)

\* C20 as stated: a candidate whose stored vector equals the query vector
\* scores 1.0 and is the first match, whatever else is stored.
C20_IdenticalVectorIsFirst ==
    (outcome.fn = "search" /\ ~outcome.err /\ Request.top_k >= 1) =>
        \A row \in Candidates :
           Embedding(row) = Request.query_embedding =>
              /\ IsOne(Score(row))
              /\ outcome.matches[1] = Match(row, Request.query_embedding)

\* C20, amended: a candidate whose stored vector equals a query vector of
\* non-zero magnitude scores 1.0, and so does the first match; that candidate
\* is the first match unless another candidate scores 1.0 too.  With exactly
\* the records [1,0] and [0,1] under (c1, public, users), the query [1,0] with
\* top_k = 1 returns the [1,0] record alone, with score 1.0.
C20_IdenticalVectorIsFirstUnlessTied ==
    (outcome.fn = "search" /\ ~outcome.err /\ Request.top_k >= 1) =>
        /\ \A row \in Candidates :
              (Embedding(row) = Request.query_embedding /\ norm2(Request.query_embedding) # 0) =>
                 /\ IsOne(Score(row))
                 /\ IsOne(outcome.matches[1].score)
                 /\ (\A other \in Candidates \ {row} : ~IsOne(Score(other))) =>
                       outcome.matches[1] = Match(row, Request.query_embedding)
        /\ ( /\ Request = [connection_id |-> "c1", schema |-> "public", table |-> "users",
                           query_embedding |-> <<1, 0>>, top_k |-> 1]
             /\ {Embedding(row) : row \in Candidates} = {<<1, 0>>, <<0, 1>>}
             /\ Cardinality(Candidates) = 2 ) =>
               \E row \in Candidates :
                  /\ Embedding(row) = <<1, 0>>
                  /\ outcome.matches = <<Match(row, <<1, 0>>)>>
                  /\ IsOne(outcome.matches[1].score)

\* the scenario: (c1, public, users) holds [1,0] and [0,1], and the query
\* [1,0] with top_k = 1 has returned
C20_Witness ==
    /\ outcome.fn = "search" /\ ~outcome.err
    /\ Request = [connection_id |-> "c1", schema |-> "public", table |-> "users",
                  query_embedding |-> <<1, 0>>, top_k |-> 1]
    /\ Candidates = {Row(RecA1, 1), Row(RecB, 1)}
    /\ Len(outcome.matches) = 1

\* the match of row is among those returned
IsReturned(row) ==
    \E i \in DOMAIN outcome.matches :
       outcome.matches[i] = Match(row, Request.query_embedding)

ZeroMagnitude(v) == \A i \in DOMAIN v : v[i] = 0

\* C21: a candidate scores 0.0 whenever the query vector or its stored vector
\* has zero magnitude (all components zero, or no component); the search does
\* not fail, and returns the candidate with that score when top_k admits all.
C21_ZeroMagnitudeScoresZero ==
    (outcome.fn = "search" /\ \A row \in Candidates : Parses(row)) =>
        /\ ~outcome.err
        /\ \A row \in Candidates :
              (ZeroMagnitude(Request.query_embedding) \/ ZeroMagnitude(Embedding(row))) =>
                 /\ Score(row) = Zero
                 /\ Request.top_k >= Cardinality(Candidates) => IsReturned(row)
        /\ \A i \in DOMAIN outcome.matches : outcome.matches[i].score.den2 > 0

\* a query of non-zero magnitude returned a record stored with an empty vector,
\* with score 0.0
C21_Witness ==
    /\ outcome.fn = "search" /\ ~outcome.err
    /\ Request.query_embedding = <<1, 0>>
    /\ \E row \in Candidates :
          /\ Embedding(row) = <<>>
          /\ IsReturned(row)
          /\ Match(row, Request.query_embedding).score = Zero

\* the stored rows a request names
InScope ==
    {row \in db : /\ row.connection_id = Request.connection_id
                  /\ Request.schema # NoFilter => row.schema_name = Request.schema
                  /\ Request.table # NoFilter => row.table_name = Request.table}

\* C22: the matches of a search are matches of distinct rows stored under the
\* connection_id of the request, and under its schema and table when given;
\* a row of another connection adds no match, even if it equals a row in scope
\* in everything else.
C22_MatchesComeFromScope ==
    (outcome.fn = "search" /\ ~outcome.err) =>
        /\ \E f \in [DOMAIN outcome.matches -> InScope] :
              /\ \A i, j \in DOMAIN outcome.matches : f[i] = f[j] => i = j
              /\ \A i \in DOMAIN outcome.matches :
                    outcome.matches[i] = Match(f[i], Request.query_embedding)
        /\ \A i \in DOMAIN outcome.matches :
              /\ Request.schema # NoFilter => outcome.matches[i].schema = Request.schema
              /\ Request.table # NoFilter => outcome.matches[i].table = Request.table

\* c1 and c2 hold records equal in all but the connection, and a search of c2
\* with room for two matches returned one
C22_Witness ==
    /\ outcome.fn = "search" /\ ~outcome.err
    /\ {Row(RecA1, 1), Row(RecE, 1)} \subseteq db
    /\ Request.connection_id = "c2"
    /\ Request.top_k = 2
    /\ Len(outcome.matches) = 1

\* this step is a delete_table_embeddings
DeleteStep ==
    /\ outcome'.fn = "delete_table_embeddings"
    /\ outcome' # outcome \/ db' # db

\* C23: delete_table_embeddings removes exactly the stored rows whose
\* connection_id, schema_name and table_name equal its arguments, leaves
\* every other row as it was, and returns the number of rows removed, 0
\* included, without error.
C23_DeleteRemovesExactlyTheTable ==
    [][DeleteStep =>
          LET r == outcome'.request
              named == {row \in db : /\ row.connection_id = r.connection_id
                                     /\ row.schema_name = r.schema
                                     /\ row.table_name = r.table}
          IN  /\ db' = db \ named
              /\ ~outcome'.err
              /\ outcome'.count = Cardinality(named)]_allVars

\* a delete of (c1, public, users) removed rows and left the rows of another
\* table, another schema and another connection
C23_Witness ==
    /\ outcome.fn = "delete_table_embeddings"
    /\ outcome.request.connection_id = "c1"
    /\ outcome.request.schema = "public"
    /\ outcome.request.table = "users"
    /\ outcome.count = 2
    /\ db = {Row(RecC, 1), Row(RecD, 1), Row(RecE, 1)}

\* C24: when a candidate's stored metadata or embedding does not deserialize,
\* the search fails as a whole, with the error variant of database errors.
C24_CorruptRowIsStorageError ==
    (outcome.fn = "search" /\ \E row \in Candidates : ~Parses(row)) =>
        /\ outcome.err
        /\ outcome.matches = <<>>
        /\ outcome.kind = from_rusqlite_error

\* C25: a statement of insert_embeddings leaves every row with another
\* five-part key as it was and removes none; so does the commit of a batch,
\* for the rows whose key is not in the batch.
C25_UpsertLeavesOtherKeys ==
    [][/\ ExecuteStep =>
             LET record == Head(tx.records)
             IN  /\ {row \in tx'.work : Key(row) # Key(record)}
                       = {row \in working : Key(row) # Key(record)}
                 /\ \A row \in working : \E kept \in tx'.work : Key(kept) = Key(row)
       /\ CommitStep =>
             LET keys == {Key(tx.batch[i]) : i \in DOMAIN tx.batch}
             IN  /\ {row \in db' : Key(row) \notin keys} = {row \in db : Key(row) \notin keys}
                 /\ \A row \in db : \E kept \in db' : Key(kept) = Key(row)]_allVars

\* the row r1 was stored at time 1 under chunk hash h1; a batch that stored it
\* under h2 at time 2 has been committed and the first row is as it was
C25_Witness ==
    /\ outcome = Returned("insert_embeddings", 1)
    /\ db = {Row(RecA1, 1), Row(RecB, 2)}

\* ---------------------------------------------------------------- C26
\* C26: after any sequence of start_ollama commands on one EmbeddingState, at
\* most one spawned child that is alive and was never signalled serves the
\* managed port: a second start does not spawn a child beside the first.
C26_AtMostOneLiveChild ==
    Cardinality(children) <= 1

\* ---------------------------------------------------------------- C27
\* C27: whenever status is Running a process_handle is present: the
\* supervisor never reports Running without owning a spawned child.
C27_RunningOwnsAChild ==
    status = "Running" => process_handle # None

\* ---------------------------------------------------------------- C28
\* C28: while every probe fails and every spawn succeeds, supervise() spawns
\* at most max_restart_attempts children: its recovery is bounded.
C28_RecoveryIsBounded ==
    spawned <= max_restart_attempts

\* ---------------------------------------------------------------- C29
\* the caller's last call was a stop() that signalled the child and set
\* Stopped, and the caller has called nothing since
CallerStopped ==
    /\ pc["caller"] = "idle"
    /\ ret["caller"] = Ret("stop", "ok")
    /\ kill_res["caller"] # "none"

\* C29: a caller's stop() is persistent while supervise() runs: until the
\* caller calls again, status stays Stopped and no child is spawned.
C29_StopIsPersistent ==
    [][(CallerStopped /\ status = "Stopped" /\ CallerStopped') =>
          (status' = "Stopped" /\ spawned' = spawned)]_vars

\* ---------------------------------------------------------------- C30
\* p has called self.state.lock() and does not own the mutex yet
Waiting(p) == pc[p] \in Sections /\ ~locked[p]

\* the mutex is owned only by a caller inside a lock scope: never by one that
\* sleeps, probes, spawns or is calling lock() again
OwnerIsInScope == \A p \in Procs : lock = p => locked[p]

====
